---------------------------- MODULE Spec2Model ----------------------------
(***************************************************************************)
(* Model of views.py: the products(request) handler.  One request is       *)
(* modelled from the upstream fetch to the JSON response; every "Step" of  *)
(* the handler is one action.                                              *)
(*                                                                         *)
(* Encoding of Python values: a value is a record [t, n, s].               *)
(*   t = "none"  None                                                      *)
(*   t = "num"   an int or float; n is the value in thousandths            *)
(*   t = "str"   a string; s is its text                                   *)
(*   t = "date"  a string of the form YYYY-MM-DD; n is the integer         *)
(*               YYYYMMDD, whose order is the string's lexicographic order *)
(*   t = "long"  a string of the form "Month DD, YYYY" (strftime output);  *)
(*               n is the integer YYYYMMDD of the date it spells           *)
(* An ordered dict is a sequence of [k, v] pairs with distinct keys.       *)
(***************************************************************************)
EXTENDS Integers, Sequences, FiniteSets, TLC

VARIABLES upstream, request, pc, raw_data, products, transformed_products, response

vars == <<upstream, request, pc, raw_data, products, transformed_products, response>>

-----------------------------------------------------------------------------
(* Python values *)

None == [t |-> "none", n |-> 0, s |-> ""]
Num(x) == [t |-> "num", n |-> x, s |-> ""]
Str(x) == [t |-> "str", n |-> 0, s |-> x]
Date(x) == [t |-> "date", n |-> x, s |-> ""]
LongDate(x) == [t |-> "long", n |-> x, s |-> ""]

IsStr(v) == v.t \in {"str", "date", "long"}

\* bool(v): None, 0, 0.0 and "" are falsy.
Truthy(v) == ~(v.t = "none" \/ (v.t = "num" /\ v.n = 0) \/ (v.t = "str" /\ v.s = ""))

\* request.GET.get(name) of a parameter that is not in the query string.
NONE == "<None>"

Range(seq) == {seq[i] : i \in 1..Len(seq)}

-----------------------------------------------------------------------------
(* Module-level tables *)

USD_TO_INR == 83

FIELD_RENAME_MAP ==
    ("average_rating" :> "avgRating") @@ ("rating_count" :> "ratingCount") @@
    ("release_date" :> "releaseDate") @@ ("brand_name" :> "brandName") @@
    ("product_name" :> "productName") @@ ("product_id" :> "productId")

CUSTOM_FIELD_ORDER ==
    <<"avgRating", "ratingCount", "releaseDate", "price", "priceInINR",
      "brandName", "category_name", "processor", "memory", "description_text",
      "productName", "productId">>

required_keys ==
    <<"id", "name", "brand", "category", "description",
      "price", "currency", "processor", "memory",
      "release_date", "average_rating", "rating_count">>

\* The keys of the product dict literal, in the order the literal lists them.
product_keys ==
    <<"product_id", "product_name", "brand_name", "category_name", "description_text",
      "price", "currency", "processor", "memory",
      "release_date", "average_rating", "rating_count">>

\* The upstream field each product key is read from.
product_source ==
    ("product_id" :> "id") @@ ("product_name" :> "name") @@ ("brand_name" :> "brand") @@
    ("category_name" :> "category") @@ ("description_text" :> "description") @@
    ("price" :> "price") @@ ("currency" :> "currency") @@ ("processor" :> "processor") @@
    ("memory" :> "memory") @@ ("release_date" :> "release_date") @@
    ("average_rating" :> "average_rating") @@ ("rating_count" :> "rating_count")

-----------------------------------------------------------------------------
(* Responses *)

NoResponse == [status |-> 0, error |-> "", body |-> <<>>]
ErrorResponse(msg, st) == [status |-> st, error |-> msg, body |-> <<>>]
ArrayResponse(recs) == [status |-> 200, error |-> "", body |-> recs]
\* An exception no handler of the view catches: the framework answers 500.
Unhandled == ErrorResponse("<unhandled exception>", 500)

-----------------------------------------------------------------------------
(* Step 1: filter out malformed data.                                      *)
(* A raw item is [kind, fields]: kind is the JSON type of the item, fields *)
(* maps the names that `name in item` finds to their values: the keys of a *)
(* dict, the string elements of a list, the substrings of a string.        *)

NoFields == [k \in {} |-> None]

\* `k in item` raises TypeError for an item that is not a container.
InRaises(item) == item.kind \in {"num", "none", "bool"}
In(k, item) == k \in DOMAIN item.fields

\* item[k] with a str key: TypeError unless item is a dict, KeyError if absent.
GetItemError(item, k) ==
    IF item.kind # "dict" THEN "TypeError"
    ELSE IF k \notin DOMAIN item.fields THEN "KeyError"
    ELSE "ok"

MakeProduct(item) == [k \in Range(product_keys) |-> item.fields[product_source[k]]]

\* The body of the try block for one item: "append", "continue", or the
\* exception it raises.
NormalizeItem(item) ==
    IF InRaises(item) THEN "TypeError"
    ELSE IF ~(\A i \in 1..Len(required_keys) : In(required_keys[i], item)) THEN "continue"
    ELSE IF \E k \in Range(product_keys) : GetItemError(item, product_source[k]) # "ok"
         THEN GetItemError(item, product_source[product_keys[1]])
    ELSE "append"

NormalizeCatchesOnlyKeyError(exc) == exc = "KeyError"

\* except Exception: continue
NormalizeCatches(exc) == exc \in {"TypeError", "KeyError"}

\* The loop over raw_data: the products appended, and whether an exception
\* left the loop.
RECURSIVE NormalizeLoop(_, _)
NormalizeLoop(raw, acc) ==
    IF raw = <<>> THEN [raised |-> FALSE, products |-> acc]
    ELSE LET item == Head(raw)
             out == NormalizeItem(item)
         IN  IF out = "append" THEN NormalizeLoop(Tail(raw), Append(acc, MakeProduct(item)))
             ELSE IF out = "continue" \/ NormalizeCatches(out) THEN NormalizeLoop(Tail(raw), acc)
             ELSE [raised |-> TRUE, products |-> acc]

-----------------------------------------------------------------------------
(* Text conversions.  The tables list the texts the model's requests and   *)
(* records use; every other text is rejected (ValueError) or unchanged.    *)

\* float(text), in thousandths
FloatOfText == ("3" :> 3000) @@ ("4" :> 4000) @@ ("4.5" :> 4500) @@ ("5" :> 5000)

\* int(text)
IntOfText == ("-1" :> (0 - 1)) @@ ("0" :> 0) @@ ("1" :> 1) @@ ("2" :> 2) @@ ("3" :> 3) @@
             ("4" :> 4) @@ ("5" :> 5)

\* str.lower()
LowerOfText == ("Acme" :> "acme") @@ ("ACME" :> "acme") @@ ("Bolt" :> "bolt") @@
               ("BOLT" :> "bolt") @@ ("Phone" :> "phone") @@ ("PHONE" :> "phone") @@
               ("Laptop" :> "laptop")
Lower(text) == IF text \in DOMAIN LowerOfText THEN LowerOfText[text] ELSE text

\* float(v) of a record's value: "ok", or the exception raised.
FloatError(v) ==
    CASE v.t = "num" -> "ok"
      [] v.t = "str" -> IF v.s \in DOMAIN FloatOfText THEN "ok" ELSE "ValueError"
      [] v.t \in {"date", "long"} -> "ValueError"
      [] OTHER -> "TypeError"
Float(v) == IF v.t = "num" THEN v.n ELSE FloatOfText[v.s]

-----------------------------------------------------------------------------
(* Step 2: filtering *)

\* p['average_rating'] is not None and float(p['average_rating']) >= min_rating
RatingKeepsStrict(p, threshold) ==
    p["average_rating"] # None /\ Float(p["average_rating"]) > threshold

RatingKeeps(p, threshold) ==
    p["average_rating"] # None /\ Float(p["average_rating"]) >= threshold

\* The exception the rating comprehension raises on this list, if any.
RatingError(ps) ==
    IF \E i \in 1..Len(ps) : ps[i]["average_rating"] # None
                             /\ FloatError(ps[i]["average_rating"]) = "TypeError"
    THEN "TypeError"
    ELSE IF \E i \in 1..Len(ps) : ps[i]["average_rating"] # None
                                  /\ FloatError(ps[i]["average_rating"]) = "ValueError"
    THEN "ValueError"
    ELSE "ok"

FilterRating(ps, threshold) == SelectSeq(ps, LAMBDA p : RatingKeeps(p, threshold))

\* p[key].lower() == text.lower()
LowerEquals(v, text) == v.t = "str" /\ Lower(v.s) = Lower(text)

\* .lower() of a value that is not a str raises AttributeError.
LowerError(ps, key) == \E i \in 1..Len(ps) : ~IsStr(ps[i][key])

FilterBrand(ps, brand) == SelectSeq(ps, LAMBDA p : LowerEquals(p["brand_name"], brand))

FilterCategory(ps, category) ==
    SelectSeq(ps, LAMBDA p : LowerEquals(p["category_name"], category))

\* `if x:` on a request parameter: supplied and not the empty text.
Supplied(x) == x # NONE /\ x # ""

\* The whole of step 2: the response it returns, if any, and the products left.
FilterStep(ps, req) ==
    LET afterRating ==
            IF ~Supplied(req.min_rating) THEN [resp |-> NoResponse, ps |-> ps]
            ELSE IF req.min_rating \notin DOMAIN FloatOfText
                 THEN [resp |-> ErrorResponse("Invalid min_rating value", 400), ps |-> ps]
            ELSE IF RatingError(ps) = "ValueError"
                 THEN [resp |-> ErrorResponse("Invalid min_rating value", 400), ps |-> ps]
            ELSE IF RatingError(ps) # "ok" THEN [resp |-> Unhandled, ps |-> ps]
            ELSE [resp |-> NoResponse, ps |-> FilterRating(ps, FloatOfText[req.min_rating])]
        afterBrand ==
            IF afterRating.resp # NoResponse \/ ~Supplied(req.brand) THEN afterRating
            ELSE IF LowerError(afterRating.ps, "brand_name")
                 THEN [resp |-> Unhandled, ps |-> afterRating.ps]
            ELSE [resp |-> NoResponse, ps |-> FilterBrand(afterRating.ps, req.brand)]
    IN  IF afterBrand.resp # NoResponse \/ ~Supplied(req.category) THEN afterBrand
        ELSE IF LowerError(afterBrand.ps, "category_name")
             THEN [resp |-> Unhandled, ps |-> afterBrand.ps]
        ELSE [resp |-> NoResponse, ps |-> FilterCategory(afterBrand.ps, req.category)]

-----------------------------------------------------------------------------
(* Sorting: list.sort(key=..., reverse=...) *)

\* x.get(field) or 0
KeyOrLast(v) == IF Truthy(v) THEN v ELSE Num(1000000000)

KeyOrZero(v) == IF Truthy(v) THEN v ELSE Num(0)

\* a < b is defined between two numbers and between two strings.
Comparable(a, b) == (a.t = "num" /\ b.t = "num") \/ (IsStr(a) /\ IsStr(b))

\* Strings other than dates that the model's records hold, in code point order.
TextOrder == <<"N/A", "abc">>
TextRank(v) ==
    IF v.t = "date" THEN v.n
    ELSE IF v.t = "long" THEN 100000000
    ELSE 100000000 + (CHOOSE i \in 1..Len(TextOrder) : TextOrder[i] = v.s)

Less(a, b) == IF a.t = "num" THEN a.n < b.n ELSE TextRank(a) < TextRank(b)

\* A comparison sort of two or more keys compares every pair of classes it
\* has to order, so it raises TypeError iff two keys are not comparable.
SortRaises(keys) == \E i, j \in 1..Len(keys) : ~Comparable(keys[i], keys[j])

\* Insert index i behind every index whose key does not sort after keys[i].
RECURSIVE StableInsert(_, _, _, _)
StableInsert(perm, i, keys, reverse) ==
    IF perm = <<>> THEN <<i>>
    ELSE LET last == perm[Len(perm)]
             goesAfter == IF reverse THEN ~Less(keys[last], keys[i])
                          ELSE ~Less(keys[i], keys[last])
         IN  IF goesAfter THEN Append(perm, i)
             ELSE Append(StableInsert(SubSeq(perm, 1, Len(perm) - 1), i, keys, reverse), last)

RECURSIVE SortPermUpTo(_, _, _)
SortPermUpTo(k, keys, reverse) ==
    IF k = 0 THEN <<>> ELSE StableInsert(SortPermUpTo(k - 1, keys, reverse), k, keys, reverse)

\* The stable sort of 1..Len(keys) by key; with reverse, descending and
\* still stable, as list.sort(reverse=True) is.
SortPerm(keys, reverse) == SortPermUpTo(Len(keys), keys, reverse)

Permute(seq, perm) == [r \in 1..Len(perm) |-> seq[perm[r]]]

-----------------------------------------------------------------------------
(* Step 3: sorting *)

valid_sort_fields == <<"price", "release_date", "rating_count">>

SortKeys(ps, sort_by) == [i \in 1..Len(ps) |-> KeyOrZero(ps[i][sort_by])]

SortProducts(ps, sort_by, reverse) == Permute(ps, SortPerm(SortKeys(ps, sort_by), reverse))

SortStep(ps, req) ==
    IF Supplied(req.sort_by) /\ req.sort_by \in Range(valid_sort_fields)
    THEN IF SortRaises(SortKeys(ps, req.sort_by))
         THEN [resp |-> ErrorResponse("Sorting error occurred", 500), ps |-> ps]
         ELSE [resp |-> NoResponse,
               ps |-> SortProducts(ps, req.sort_by, req.sort_order = "desc")]
    ELSE IF Supplied(req.sort_by)
    THEN [resp |-> ErrorResponse(
              "Invalid sort_by field. Allowed: ['price', 'release_date', 'rating_count']", 400),
          ps |-> ps]
    ELSE [resp |-> NoResponse, ps |-> ps]

-----------------------------------------------------------------------------
(* Ordered dicts *)

Keys(d) == [i \in 1..Len(d) |-> d[i].k]
HasKey(d, key) == \E i \in 1..Len(d) : d[i].k = key

\* d.get(key): the value, or None
DictGet(d, key) ==
    IF HasKey(d, key) THEN d[CHOOSE i \in 1..Len(d) : d[i].k = key].v ELSE None

\* d[key] = value: an existing key keeps its place, a new key goes last.
DictSet(d, key, value) ==
    IF HasKey(d, key)
    THEN [i \in 1..Len(d) |-> IF d[i].k = key THEN [k |-> key, v |-> value] ELSE d[i]]
    ELSE Append(d, [k |-> key, v |-> value])

-----------------------------------------------------------------------------
(* Step 4: transformations *)

RenameKey(key, rename_fields) ==
    IF rename_fields /\ key \in DOMAIN FIELD_RENAME_MAP THEN FIELD_RENAME_MAP[key] ELSE key

\* datetime.strptime(value, '%Y-%m-%d') of a truthy value: "ok", ValueError
\* for a string of another form, TypeError for a value that is no string.
StrptimeError(v) ==
    IF v.t = "date" THEN "ok" ELSE IF IsStr(v) THEN "ValueError" ELSE "TypeError"

\* The value stored under a key: the date reformatted when asked for and
\* parseable, the value itself otherwise.
FormatValue(key, v, format_date) ==
    IF format_date /\ key = "release_date" /\ Truthy(v) /\ StrptimeError(v) = "ok"
    THEN LongDate(v.n)
    ELSE v

\* round(x, 2) of a value in thousandths: to the nearest hundredth, a tie to
\* the even hundredth.
Truncate2(x) == (x \div 10) * 10

Round2(x) ==
    LET q == x \div 10
        r == x % 10
    IN  IF r < 5 THEN q * 10
        ELSE IF r > 5 THEN (q + 1) * 10
        ELSE IF q % 2 = 0 THEN q * 10 ELSE (q + 1) * 10

\* p['currency'] == 'USD' and p['price'] is not None
HasInrPrice(p) == p["currency"] = Str("USD") /\ p["price"] # None

\* round(float(p['price']) * USD_TO_INR, 2)
PriceInInr(p) == Num(Round2(Float(p["price"]) * USD_TO_INR))

InrKey(rename_fields) == IF rename_fields THEN "priceInINR" ELSE "price_in_inr"

\* The loop over p.items(), key by key in the product's key order.
RECURSIVE TransformItems(_, _, _, _)
TransformItems(p, n, rename_fields, format_date) ==
    IF n = 0 THEN <<>>
    ELSE DictSet(TransformItems(p, n - 1, rename_fields, format_date),
                 RenameKey(product_keys[n], rename_fields),
                 FormatValue(product_keys[n], p[product_keys[n]], format_date))

Transform(p, rename_fields, format_date) ==
    LET items == TransformItems(p, Len(product_keys), rename_fields, format_date)
    IN  IF HasInrPrice(p) THEN DictSet(items, InrKey(rename_fields), PriceInInr(p))
        ELSE items

\* An exception of the loop body: strptime of a truthy value that is no
\* string, float() of a price that is no number.
TransformRaises(p, format_date) ==
    \/ format_date /\ Truthy(p["release_date"]) /\ StrptimeError(p["release_date"]) = "TypeError"
    \/ HasInrPrice(p) /\ FloatError(p["price"]) # "ok"

TransformStep(ps, req) ==
    LET rename_fields == req.rename_fields = "true"
        format_date == req.format_date = "true"
    IN  IF \E i \in 1..Len(ps) : TransformRaises(ps[i], format_date)
        THEN [resp |-> Unhandled, recs |-> <<>>]
        ELSE [resp |-> NoResponse,
              recs |-> [i \in 1..Len(ps) |-> Transform(ps[i], rename_fields, format_date)]]

-----------------------------------------------------------------------------
(* Step 5: top N *)

valid_top_fields == <<"price", "average_rating", "rating_count">>

TopFieldKey(top_by, rename_fields) == RenameKey(top_by, rename_fields)

TopKeys(recs, key) == [i \in 1..Len(recs) |-> KeyOrZero(DictGet(recs[i], key))]

\* seq[:n]
SliceTo(seq, n) ==
    IF n >= 0 THEN SubSeq(seq, 1, IF n < Len(seq) THEN n ELSE Len(seq))
    ELSE SubSeq(seq, 1, Len(seq) + n)

TopSortAscending(recs, key) == Permute(recs, SortPerm(TopKeys(recs, key), FALSE))

TopSort(recs, key) == Permute(recs, SortPerm(TopKeys(recs, key), TRUE))

TopNStep(recs, req) ==
    IF ~(Supplied(req.top_n) /\ Supplied(req.top_by)) THEN [resp |-> NoResponse, recs |-> recs]
    ELSE IF req.top_n \notin DOMAIN IntOfText
    THEN [resp |-> ErrorResponse("Invalid top_n value. Must be an integer.", 400), recs |-> recs]
    ELSE IF req.top_by \notin Range(valid_top_fields)
    THEN [resp |-> ErrorResponse(
              "Invalid top_by field. Choose from ['price', 'average_rating', 'rating_count']",
              400),
          recs |-> recs]
    ELSE LET key == TopFieldKey(req.top_by, req.rename_fields = "true")
         IN  IF SortRaises(TopKeys(recs, key)) THEN [resp |-> Unhandled, recs |-> recs]
             ELSE [resp |-> NoResponse,
                   recs |-> SliceTo(TopSort(recs, key), IntOfText[req.top_n])]

-----------------------------------------------------------------------------
(* Step 6: field ordering *)

\* Every key an output record can hold, in the order sorted() puts strings
\* (code point order: upper case before "_" before lower case).
KeyOrder ==
    <<"average_rating", "avgRating", "brandName", "brand_name", "category_name",
      "currency", "description_text", "memory", "price", "priceInINR", "price_in_inr",
      "processor", "productId", "productName", "product_id", "product_name",
      "ratingCount", "rating_count", "releaseDate", "release_date">>

KeyRank(key) == CHOOSE i \in 1..Len(KeyOrder) : KeyOrder[i] = key

\* dict(sorted(p.items(), key=lambda x: x[0], reverse=...))
SortByKey(d, reverse) ==
    LET ranks == [i \in 1..Len(d) |-> Num(KeyRank(d[i].k))]
    IN  Permute(d, SortPerm(ranks, reverse))

\* The first loop of the custom order: the listed fields the record has.
RECURSIVE CustomListed(_, _)
CustomListed(d, n) ==
    IF n = 0 THEN <<>>
    ELSE IF HasKey(d, CUSTOM_FIELD_ORDER[n])
    THEN DictSet(CustomListed(d, n - 1), CUSTOM_FIELD_ORDER[n], DictGet(d, CUSTOM_FIELD_ORDER[n]))
    ELSE CustomListed(d, n - 1)

\* The second loop: every key not yet in `ordered`, in the record's order.
RECURSIVE CustomRest(_, _, _)
CustomRest(ordered, d, n) ==
    IF n = 0 THEN ordered
    ELSE LET sofar == CustomRest(ordered, d, n - 1)
         IN  IF HasKey(sofar, d[n].k) THEN sofar ELSE DictSet(sofar, d[n].k, d[n].v)

CustomOrderListedOnly(d) == CustomListed(d, Len(CUSTOM_FIELD_ORDER))

CustomOrder(d) == CustomRest(CustomListed(d, Len(CUSTOM_FIELD_ORDER)), d, Len(d))

FieldOrderStep(recs, req) ==
    LET field_order == IF req.field_order = NONE THEN "" ELSE req.field_order
    IN  IF field_order = "alpha" THEN [i \in 1..Len(recs) |-> SortByKey(recs[i], FALSE)]
        ELSE IF field_order = "reverse" THEN [i \in 1..Len(recs) |-> SortByKey(recs[i], TRUE)]
        ELSE IF field_order = "custom" /\ req.rename_fields = "true"
        THEN [i \in 1..Len(recs) |-> CustomOrder(recs[i])]
        ELSE recs

-----------------------------------------------------------------------------
(* The handler, step by step *)

\* requests.get(...), raise_for_status(), response.json(): any failure is
\* answered 500.
Fetch ==
    /\ pc = "fetch"
    /\ \E ok \in BOOLEAN :
         IF ok
         THEN /\ raw_data' = upstream
              /\ pc' = "normalize"
              /\ response' = response
         ELSE /\ raw_data' = raw_data
              /\ pc' = "done"
              /\ response' = ErrorResponse("Failed to fetch product data", 500)
    /\ UNCHANGED <<upstream, request, products, transformed_products>>

Normalize ==
    /\ pc = "normalize"
    /\ LET out == NormalizeLoop(raw_data, <<>>)
       IN  IF out.raised
           THEN /\ response' = Unhandled
                /\ pc' = "done"
                /\ products' = products
           ELSE /\ products' = out.products
                /\ pc' = "filter"
                /\ response' = response
    /\ UNCHANGED <<upstream, request, raw_data, transformed_products>>

Filter ==
    /\ pc = "filter"
    /\ LET out == FilterStep(products, request)
       IN  /\ products' = out.ps
           /\ response' = out.resp
           /\ pc' = IF out.resp = NoResponse THEN "sort" ELSE "done"
    /\ UNCHANGED <<upstream, request, raw_data, transformed_products>>

Sort ==
    /\ pc = "sort"
    /\ LET out == SortStep(products, request)
       IN  /\ products' = out.ps
           /\ response' = out.resp
           /\ pc' = IF out.resp = NoResponse THEN "transform" ELSE "done"
    /\ UNCHANGED <<upstream, request, raw_data, transformed_products>>

TransformAll ==
    /\ pc = "transform"
    /\ LET out == TransformStep(products, request)
       IN  /\ transformed_products' = out.recs
           /\ response' = out.resp
           /\ pc' = IF out.resp = NoResponse THEN "topn" ELSE "done"
    /\ UNCHANGED <<upstream, request, raw_data, products>>

TopN ==
    /\ pc = "topn"
    /\ LET out == TopNStep(transformed_products, request)
       IN  /\ transformed_products' = out.recs
           /\ response' = out.resp
           /\ pc' = IF out.resp = NoResponse THEN "order" ELSE "done"
    /\ UNCHANGED <<upstream, request, raw_data, products>>

FieldOrder ==
    /\ pc = "order"
    /\ transformed_products' = FieldOrderStep(transformed_products, request)
    /\ response' = ArrayResponse(transformed_products')
    /\ pc' = "done"
    /\ UNCHANGED <<upstream, request, raw_data, products>>

Next == Fetch \/ Normalize \/ Filter \/ Sort \/ TransformAll \/ TopN \/ FieldOrder

-----------------------------------------------------------------------------
(* Upstream collections and requests *)

\* The longest upstream collection of raw items of any JSON type.
MaxRaw == 3
\* The longest upstream collection of well-formed records.
MaxLen == 3

SeqsUpTo(S, n) == UNION {[1..m -> S] : m \in 0..n}

\* A request without any query parameter.
NoParams ==
    [min_rating |-> NONE, brand |-> NONE, category |-> NONE, sort_by |-> NONE,
     sort_order |-> NONE, rename_fields |-> NONE, format_date |-> NONE,
     field_order |-> NONE, top_n |-> NONE, top_by |-> NONE]

\* The values of a well-formed record that the pipeline reads.
Profile(brand, category, price, currency, date, rating, count) ==
    [brand |-> brand, category |-> category, price |-> price, currency |-> currency,
     date |-> date, rating |-> rating, count |-> count]

\* The upstream record with identifier i and the values of profile o.
Item(i, o) ==
    [kind |-> "dict",
     fields |-> ("id" :> Num(1000 * i)) @@ ("name" :> Str("X")) @@ ("brand" :> o.brand) @@
                ("category" :> o.category) @@ ("description" :> Str("d")) @@
                ("price" :> o.price) @@ ("currency" :> o.currency) @@
                ("processor" :> Str("A1")) @@ ("memory" :> Str("4GB")) @@
                ("release_date" :> o.date) @@ ("average_rating" :> o.rating) @@
                ("rating_count" :> o.count)]

\* The collections of at most n records over the profiles, each record
\* identified by its place in the collection.
Collections(profiles, n) ==
    {[i \in 1..Len(os) |-> Item(i, os[i])] : os \in SeqsUpTo(profiles, n)}

InitWith(collections, requests) ==
    /\ upstream \in collections
    /\ request \in requests
    /\ pc = "fetch"
    /\ raw_data = <<>>
    /\ products = <<>>
    /\ transformed_products = <<>>
    /\ response = NoResponse

-----------------------------------------------------------------------------
(* Normalization of arbitrary upstream collections *)

BaseProfile ==
    Profile(Str("Acme"), Str("Phone"), Num(100000), Str("USD"), Date(20230501),
            Num(4500), Num(10000))

\* The shapes of a raw item: a dict with all the required fields, one with a
\* further field, one lacking a single required field, an empty dict, a
\* number, null, a string that contains every required name, a string that
\* contains none, a list of the required names.
RawShapes ==
    {[shape |-> x, key |-> ""] :
        x \in {"full", "extra", "empty", "num", "none", "str_all", "str_none", "list_all"}}
    \cup {[shape |-> "missing", key |-> required_keys[i]] : i \in 1..Len(required_keys)}

Restrict(f, S) == [k \in S |-> f[k]]

RawItem(i, sh) ==
    LET full == Item(i, BaseProfile)
        names == [k \in Range(required_keys) |-> None]
    IN  CASE sh.shape = "full" -> full
          [] sh.shape = "extra" -> [full EXCEPT !.fields = @ @@ ("color" :> Str("red"))]
          [] sh.shape = "missing" ->
                [full EXCEPT !.fields = Restrict(@, DOMAIN @ \ {sh.key})]
          [] sh.shape = "empty" -> [kind |-> "dict", fields |-> NoFields]
          [] sh.shape = "num" -> [kind |-> "num", fields |-> NoFields]
          [] sh.shape = "none" -> [kind |-> "none", fields |-> NoFields]
          [] sh.shape = "str_all" -> [kind |-> "str", fields |-> names]
          [] sh.shape = "str_none" -> [kind |-> "str", fields |-> NoFields]
          [] sh.shape = "list_all" -> [kind |-> "list", fields |-> names]

RawCollections ==
    {[i \in 1..Len(shs) |-> RawItem(i, shs[i])] : shs \in SeqsUpTo(RawShapes, MaxRaw)}

InitNormalize == InitWith(RawCollections, {NoParams})
SpecNormalize == InitNormalize /\ [][Next]_vars

\* A raw record that is a mapping and has every required field.
HasAllFields(item) == item.kind = "dict" /\ Range(required_keys) \subseteq DOMAIN item.fields
ValidPlaces(raw) == {i \in 1..Len(raw) : HasAllFields(raw[i])}
\* The place in the output of the valid record at place i upstream.
OutputPlace(raw, i) == Cardinality({j \in ValidPlaces(raw) : j <= i})

\* C1: normalization never raises; a raw record lacking a required field (or
\* not a mapping) contributes no product; the records with all 12 fields
\* become the products, once each and in upstream order, and with no option
\* set they are the records of the response, in that order.
C1_Normalization ==
    /\ pc \notin {"fetch", "normalize"} => response # Unhandled
    /\ pc = "filter" =>
         /\ Len(products) = Cardinality(ValidPlaces(raw_data))
         /\ \A i \in ValidPlaces(raw_data) :
              \A k \in Range(product_keys) :
                 products[OutputPlace(raw_data, i)][k] = raw_data[i].fields[product_source[k]]
    /\ (pc = "done" /\ response.error # "Failed to fetch product data") =>
         /\ response.status = 200
         /\ Len(response.body) = Cardinality(ValidPlaces(raw_data))
         /\ \A i \in ValidPlaces(raw_data) :
              DictGet(response.body[OutputPlace(raw_data, i)], "product_id")
                 = raw_data[i].fields["id"]

\* Three raw records, the second one not a mapping with all the fields:
\* the response holds the first and the third.
C1_Witness ==
    /\ pc = "done"
    /\ Len(raw_data) = 3
    /\ ValidPlaces(raw_data) = {1, 3}
    /\ Len(response.body) = 2
    /\ DictGet(response.body[2], "product_id") = raw_data[3].fields["id"]

-----------------------------------------------------------------------------
(* Filtering *)

FilterProfiles ==
    {Profile(Str("Acme"), Str("Phone"), Num(100000), Str("USD"), Date(20230501),
             Num(4500), Num(10000)),
     Profile(Str("Acme"), Str("Laptop"), Num(100000), Str("USD"), Date(20230501),
             Num(3000), Num(10000)),
     Profile(Str("Bolt"), Str("Phone"), Num(100000), Str("USD"), Date(20230501),
             None, Num(10000)),
     Profile(Str("ACME"), Str("Phone"), Num(100000), Str("USD"), Date(20230501),
             Num(4000), Num(10000)),
     Profile(Str("Bolt"), Str("Laptop"), Num(100000), Str("USD"), Date(20230501),
             Num(4500), Num(10000))}

FilterRequests ==
    {[NoParams EXCEPT !.min_rating = m, !.brand = b, !.category = c] :
        m \in {NONE, "", "3", "4"}, b \in {NONE, "", "acme", "BOLT"},
        c \in {NONE, "PHONE", "laptop"}}

InitFilter == InitWith(Collections(FilterProfiles, MaxLen), FilterRequests)
SpecFilter == InitFilter /\ [][Next]_vars

\* Texts that differ only in the case of their letters.
CaseClasses ==
    {{"Acme", "ACME", "acme"}, {"Bolt", "BOLT", "bolt"}, {"Phone", "PHONE", "phone"},
     {"Laptop", "laptop"}}
SameIgnoringCase(a, b) == a = b \/ \E c \in CaseClasses : a \in c /\ b \in c

\* The AND of the conditions the request supplies.
Wanted(p, req) ==
    /\ Supplied(req.min_rating) =>
         p["average_rating"].t = "num" /\ p["average_rating"].n >= FloatOfText[req.min_rating]
    /\ Supplied(req.brand) => SameIgnoringCase(p["brand_name"].s, req.brand)
    /\ Supplied(req.category) => SameIgnoringCase(p["category_name"].s, req.category)

ByRating(ps, req) ==
    IF Supplied(req.min_rating) THEN FilterRating(ps, FloatOfText[req.min_rating]) ELSE ps
ByBrand(ps, req) == IF Supplied(req.brand) THEN FilterBrand(ps, req.brand) ELSE ps
ByCategory(ps, req) == IF Supplied(req.category) THEN FilterCategory(ps, req.category) ELSE ps

FilterLaw(pre, post, req) ==
    /\ post = SelectSeq(pre, LAMBDA p : Wanted(p, req))
    /\ ByCategory(ByBrand(ByRating(pre, req), req), req) = post
    /\ ByBrand(ByCategory(ByRating(pre, req), req), req) = post
    /\ ByCategory(ByRating(ByBrand(pre, req), req), req) = post
    /\ ByRating(ByCategory(ByBrand(pre, req), req), req) = post
    /\ ByBrand(ByRating(ByCategory(pre, req), req), req) = post
    /\ ByRating(ByBrand(ByCategory(pre, req), req), req) = post
    /\ FilterStep(post, req).ps = post

\* C2: the filter step leaves the products that satisfy the AND of the
\* supplied conditions, in their original order; the three filters applied
\* in any of the six orders give that same sequence, and filtering the
\* result again changes nothing.
C2_FilterCommutesIdempotent ==
    [][(pc = "filter" /\ pc' = "sort") => FilterLaw(products, products', request)]_vars

\* All three filters supplied, three products in, two of them kept.
C2_Witness ==
    /\ pc = "sort"
    /\ Supplied(request.min_rating) /\ Supplied(request.brand) /\ Supplied(request.category)
    /\ Len(raw_data) = 3
    /\ Len(products) = 2
    /\ products[1]["brand_name"] # products[2]["brand_name"]

-----------------------------------------------------------------------------
(* Sorting *)

SortProfile(price, date, count) ==
    Profile(Str("Acme"), Str("Phone"), price, Str("EUR"), date, Num(4500), count)

\* Prices, dates and rating counts, each null in some record.
SortProfiles ==
    {SortProfile(Num(100000), Date(20230501), Num(10000)),
     SortProfile(Num(200000), Date(20240115), Num(5000)),
     SortProfile(None, Date(20230501), None),
     SortProfile(Num(0), None, Num(10000)),
     SortProfile(Num(100000), None, None),
     SortProfile(Num(50000), Date(20221130), Num(7000))}

SortRequests ==
    {[NoParams EXCEPT !.sort_by = f, !.sort_order = o] :
        f \in {NONE, "", "price", "release_date", "rating_count", "name"},
        o \in {NONE, "asc", "desc", "DESC"}}

InitSort == InitWith(Collections(SortProfiles, MaxLen), SortRequests)
SpecSort == InitSort /\ [][Next]_vars

Reverse(seq) == [i \in 1..Len(seq) |-> seq[Len(seq) + 1 - i]]

\* The price a product is sorted by: null counts as zero.
PriceOrZero(p) == IF p["price"] = None THEN 0 ELSE p["price"].n

DistinctPrices(ps) ==
    /\ \A i \in 1..Len(ps) : ps[i]["price"] # None
    /\ \A i, j \in 1..Len(ps) : i # j => ps[i]["price"] # ps[j]["price"]

\* The place of ps[i] in the stable order by PriceOrZero.
PricePlace(ps, i, descending) ==
    1 + Cardinality({j \in 1..Len(ps) :
          \/ (IF descending THEN PriceOrZero(ps[j]) > PriceOrZero(ps[i])
              ELSE PriceOrZero(ps[j]) < PriceOrZero(ps[i]))
          \/ (PriceOrZero(ps[j]) = PriceOrZero(ps[i]) /\ j < i)})

PriceSortLaw(pre, post, req) ==
    LET descending == req.sort_order = "desc"
    IN  /\ Len(post) = Len(pre)
        /\ \A i \in 1..Len(pre) : post[PricePlace(pre, i, descending)] = pre[i]
        /\ DistinctPrices(pre) =>
             post = Reverse(SortProducts(pre, "price", ~descending))

\* C3: for sort_by=price, every product stands where the stable order by
\* price puts it when a null price counts as 0, ascending and descending;
\* when the prices are distinct and non-null the descending order is the
\* reverse of the ascending order.
C3_PriceSort ==
    [][(pc = "sort" /\ request.sort_by = "price") =>
          (pc' = "transform" /\ PriceSortLaw(products, products', request))]_vars

\* Sorted descending by price: the product with the null price, first
\* upstream, stands behind the priced product and, as an equal of the
\* product whose price is 0, before it.
C3_Witness ==
    /\ pc = "transform"
    /\ request.sort_by = "price" /\ request.sort_order = "desc"
    /\ Len(products) = 3
    /\ raw_data[1].fields["price"] = None
    /\ products[1]["price"] = Num(200000)
    /\ products[2]["price"] = None
    /\ products[3]["price"] = Num(0)

\* C9: sorting never fails because of a null sort key, and sorting by
\* release_date ascending puts the products with a null date first.
C9_NullSafeSort ==
    /\ response.error # "Sorting error occurred"
    /\ (pc = "transform" /\ request.sort_by = "release_date" /\ request.sort_order # "desc") =>
          \A i, j \in 1..Len(products) :
             (products[i]["release_date"] = None /\ products[j]["release_date"] # None) => i < j

-----------------------------------------------------------------------------
(* Top N *)

TopProfile(price, currency, rating, count) ==
    Profile(Str("Acme"), Str("Phone"), price, Str(currency), Date(20230501), rating, count)

\* Equal and null values of each ranking field.
TopProfiles ==
    {TopProfile(Num(100000), "USD", Num(4500), Num(10000)),
     TopProfile(Num(100000), "EUR", None, Num(5000)),
     TopProfile(None, "USD", Num(3000), None),
     TopProfile(Num(200000), "USD", Num(4500), Num(10000))}

TopRequests ==
    {[NoParams EXCEPT !.top_n = n, !.top_by = f, !.rename_fields = r, !.sort_by = sb] :
        n \in {"-1", "0", "1", "2", "5"}, f \in Range(valid_top_fields),
        r \in {NONE, "true"}, sb \in {NONE, "price"}}

InitTop == InitWith(Collections(TopProfiles, MaxLen), TopRequests)
SpecTop == InitTop /\ [][Next]_vars

\* The key the ranking field has in the transformed records.
RankingKey(top_by, renamed) ==
    IF ~renamed THEN top_by
    ELSE CASE top_by = "average_rating" -> "avgRating"
           [] top_by = "rating_count" -> "ratingCount"
           [] OTHER -> top_by

\* The value a record is ranked by: null counts as zero.
RankingValue(rec, key) == IF DictGet(rec, key) = None THEN 0 ELSE DictGet(rec, key).n

\* The place of recs[i] by descending ranking value, equal values in the
\* order they stand in.
TopPlace(recs, i, key) ==
    1 + Cardinality({j \in 1..Len(recs) :
          \/ RankingValue(recs[j], key) > RankingValue(recs[i], key)
          \/ (RankingValue(recs[j], key) = RankingValue(recs[i], key) /\ j < i)})

TopLaw(pre, post, req) ==
    LET key == RankingKey(req.top_by, req.rename_fields = "true")
        n == IntOfText[req.top_n]
    IN  /\ Len(post) = IF n < Len(pre) THEN n ELSE Len(pre)
        /\ \A i \in 1..Len(pre) :
             TopPlace(pre, i, key) <= Len(post) => post[TopPlace(pre, i, key)] = pre[i]

PositiveCount(req) == req.top_n \in DOMAIN IntOfText /\ IntOfText[req.top_n] > 0

\* C4: with a positive top_n and a valid top_by the Top-N step leaves
\* min(top_n, number of records) records: those of the highest ranking value
\* (read under the renamed key when renaming is on, null as zero), in
\* descending order, equal values in the order they had before the step.
C4_TopN ==
    [][(pc = "topn" /\ PositiveCount(request) /\ request.top_by \in Range(valid_top_fields)) =>
          (pc' = "order" /\ TopLaw(transformed_products, transformed_products', request))]_vars

\* Top 2 by price of three renamed records: the record that stood last comes
\* first, and of two records of equal price the earlier one is kept.
C4_Witness ==
    /\ pc = "order"
    /\ request.top_n = "2" /\ request.top_by = "price" /\ request.rename_fields = "true"
    /\ request.sort_by = NONE
    /\ Len(products) = 3
    /\ products[1]["price"] = products[2]["price"]
    /\ Len(transformed_products) = 2
    /\ DictGet(transformed_products[1], "productId") = products[3]["product_id"]
    /\ DictGet(transformed_products[2], "productId") = products[1]["product_id"]

\* C8: a top_n that parses to zero or to a negative integer leaves the
\* response what it is without top_n and top_by.
C8_NonPositiveCountIsNoOp ==
    (/\ pc = "done"
     /\ request.top_n \in DOMAIN IntOfText
     /\ IntOfText[request.top_n] <= 0
     /\ request.top_by \in Range(valid_top_fields)
     /\ response.error # "Failed to fetch product data")
    => response = ArrayResponse(FieldOrderStep(TransformStep(products, request).recs, request))

-----------------------------------------------------------------------------
(* Field ordering *)

\* A record with the derived price, one in another currency whose date is
\* no date, one with neither price nor date.
OrderProfiles ==
    {Profile(Str("Acme"), Str("Phone"), Num(100000), Str("USD"), Date(20230501),
             Num(4500), Num(10000)),
     Profile(Str("Bolt"), Str("Laptop"), Num(100000), Str("EUR"), Str("soon"),
             None, Num(5000)),
     Profile(Str("Acme"), Str("Phone"), None, Str("USD"), None, Num(3000), None)}

OrderRequests ==
    {[NoParams EXCEPT !.field_order = o, !.rename_fields = r, !.format_date = f] :
        o \in {NONE, "", "alpha", "reverse", "custom", "CUSTOM"},
        r \in {NONE, "true", "false", "True"}, f \in {NONE, "true"}}

InitOrder == InitWith(Collections(OrderProfiles, MaxLen), OrderRequests)
SpecOrder == InitOrder /\ [][Next]_vars

\* The fixed priority list of field_order=custom.
PriorityList ==
    <<"avgRating", "ratingCount", "releaseDate", "price", "priceInINR", "brandName",
      "category_name", "processor", "memory", "description_text", "productName", "productId">>

PlaceIn(seq, x) == CHOOSE i \in 1..Len(seq) : seq[i] = x

\* o holds the pairs of d: the keys of the priority list first, in the
\* list's order, then the other keys in the order they have in d.
CustomLaw(d, o) ==
    /\ Len(o) = Len(d)
    /\ Range(o) = Range(d)
    /\ \A a, b \in 1..Len(o) :
         a < b =>
            LET ka == o[a].k
                kb == o[b].k
            IN  IF ka \in Range(PriorityList)
                THEN kb \in Range(PriorityList) =>
                        PlaceIn(PriorityList, ka) < PlaceIn(PriorityList, kb)
                ELSE /\ kb \notin Range(PriorityList)
                     /\ PlaceIn(Keys(d), ka) < PlaceIn(Keys(d), kb)

\* C5: with field_order=custom, without rename_fields=true the records
\* keep the transformer's key order; with rename_fields=true every record
\* holds the same pairs, the keys of the priority list first in the list's
\* order, the remaining keys behind them in their prior order.
C5_CustomOrder ==
    [][(pc = "order" /\ request.field_order = "custom") =>
          /\ response' = ArrayResponse(transformed_products')
          /\ IF request.rename_fields # "true"
             THEN transformed_products' = transformed_products
             ELSE /\ Len(transformed_products') = Len(transformed_products)
                  /\ \A i \in 1..Len(transformed_products) :
                       CustomLaw(transformed_products[i], transformed_products'[i])]_vars

\* A renamed record with the derived price in custom order: avgRating
\* first, priceInINR fifth, the unlisted currency last.
C5_Witness ==
    /\ pc = "done"
    /\ request.field_order = "custom" /\ request.rename_fields = "true"
    /\ Len(response.body) >= 1
    /\ Len(response.body[1]) = 13
    /\ response.body[1][1].k = "avgRating"
    /\ response.body[1][5].k = "priceInINR"
    /\ response.body[1][13].k = "currency"

-----------------------------------------------------------------------------
(* The derived price *)

InrProfile(brand, price, currency) ==
    Profile(Str(brand), Str("Phone"), price, currency, Date(20230501), Num(4500), Num(10000))

\* Prices 100, 0, null, 1.004, 1.009 and 0.125 (83 times the last lies
\* midway between two hundredths); currencies USD, EUR, usd and null.
InrProfiles ==
    {InrProfile("Acme", Num(100000), Str("USD")),
     InrProfile("Bolt", Num(0), Str("USD")),
     InrProfile("Acme", None, Str("USD")),
     InrProfile("Bolt", Num(100000), Str("EUR")),
     InrProfile("Acme", Num(1004), Str("USD")),
     InrProfile("Acme", Num(1009), Str("USD")),
     InrProfile("Bolt", Num(125), Str("USD")),
     InrProfile("Acme", Num(100000), Str("usd")),
     InrProfile("Acme", Num(100000), None)}

InrRequests ==
    {[NoParams EXCEPT !.rename_fields = r, !.brand = b] :
        r \in {NONE, "true", "false"}, b \in {NONE, "acme"}}

InitInr == InitWith(Collections(InrProfiles, MaxLen), InrRequests)
SpecInr == InitInr /\ [][Next]_vars

\* v is x (in thousandths) rounded to a whole number of hundredths.
IsRoundedTo2(v, x) == v % 10 = 0 /\ v - x <= 5 /\ x - v <= 5

DerivedLaw(p, rec, renamed) ==
    LET key == IF renamed THEN "priceInINR" ELSE "price_in_inr"
        other == IF renamed THEN "price_in_inr" ELSE "priceInINR"
    IN  IF p["currency"] = Str("USD") /\ p["price"] # None
        THEN /\ rec[Len(rec)].k = key
             /\ Cardinality({i \in 1..Len(rec) : rec[i].k \in {key, other}}) = 1
             /\ rec[Len(rec)].v.t = "num"
             /\ IsRoundedTo2(rec[Len(rec)].v.n, p["price"].n * 83)
        ELSE ~HasKey(rec, key) /\ ~HasKey(rec, other)

\* C6: the record of a product that survived filtering ends with the one
\* derived field, price * 83 rounded to 2 decimals, under priceInINR with
\* rename_fields=true and under price_in_inr otherwise, if the currency is
\* "USD" and the price is not null; otherwise it has neither key.
C6_DerivedPrice ==
    pc = "topn" =>
       /\ Len(transformed_products) = Len(products)
       /\ \A i \in 1..Len(products) :
            DerivedLaw(products[i], transformed_products[i], request.rename_fields = "true")

\* Behind the brand filter: a record of price 1.009 USD with priceInINR
\* 83.75, and one of a USD product without a price, without the field.
C6_Witness ==
    /\ pc = "topn"
    /\ request.rename_fields = "true" /\ request.brand = "acme"
    /\ Len(products) = 2 /\ Len(raw_data) = 3
    /\ products[1]["price"] = Num(1009)
    /\ DictGet(transformed_products[1], "priceInINR") = Num(83750)
    /\ products[2]["price"] = None /\ products[2]["currency"] = Str("USD")
    /\ ~HasKey(transformed_products[2], "priceInINR")

-----------------------------------------------------------------------------
(* Invalid parameters *)

ErrorProfile(date, rating) ==
    Profile(Str("Acme"), Str("Phone"), Num(100000), Str("USD"), date, rating, Num(10000))

\* Dates and ratings, null in some records; one rating is a text that is
\* no number.
ErrorProfiles ==
    {ErrorProfile(Date(20230501), Num(4500)),
     ErrorProfile(None, Num(4500)),
     ErrorProfile(Date(20230501), Str("N/A")),
     ErrorProfile(Date(20240115), None)}

ErrorRequests ==
    {[NoParams EXCEPT !.min_rating = m, !.sort_by = sb, !.top_n = n, !.top_by = f] :
        m \in {NONE, "abc", "4"}, sb \in {NONE, "name", "release_date"},
        n \in {NONE, "abc", "1.5", "2"}, f \in {NONE, "price", "name"}}

InitErrors == InitWith(Collections(ErrorProfiles, MaxLen), ErrorRequests)
SpecErrors == InitErrors /\ [][Next]_vars

\* A parameter value the interface rejects.
InvalidParameter(req) ==
    \/ Supplied(req.min_rating) /\ req.min_rating \notin DOMAIN FloatOfText
    \/ Supplied(req.sort_by) /\ req.sort_by \notin {"price", "release_date", "rating_count"}
    \/ /\ Supplied(req.top_n) /\ Supplied(req.top_by)
       /\ \/ req.top_n \notin DOMAIN IntOfText
          \/ req.top_by \notin {"price", "average_rating", "rating_count"}

FetchSucceeded == response.error # "Failed to fetch product data"

\* C7: a request with an invalid min_rating, sort_by, top_n or top_by whose
\* fetch succeeds is answered with a single error object of status 400 and
\* no product array.
C7_InvalidParameterIs400 ==
    (pc = "done" /\ FetchSucceeded /\ InvalidParameter(request)) =>
       (response.status = 400 /\ response.error # "" /\ response.body = <<>>)

\* C10: a request whose min_rating parses is never answered 'Invalid
\* min_rating value', whatever the records' average_rating values are.
C10_MinRating400OnlyForParameter ==
    request.min_rating \in DOMAIN FloatOfText => response.error # "Invalid min_rating value"

=============================================================================
